---- MODULE Spec2Model ----
(***************************************************************************)
(* Model of the rsproxy HTTP request parser (src/src/lib.rs).              *)
(*                                                                         *)
(* Text is a sequence of character codes (Unicode scalar values; all the   *)
(* inputs drawn here are ASCII).  HttpHeader::new and HttpRequest::new are *)
(* pure functions: each is an operator computed as the code computes it,   *)
(* and one action per entry point applies it to the input drawn by Init.   *)
(* An index past the end of a Vec is Rust's bounds-check panic: the call   *)
(* returns no value, modelled as the result tagged "Panic".                *)
(***************************************************************************)
EXTENDS Integers, Sequences, FiniteSets, TLC

VARIABLES input, called, result

vars == <<input, called, result>>

----------------------------------------------------------------------------
(* Bounds of the input space *)

\* at most this many letters of a header name deviate from all-lower / all-upper
MaxFlips == 2
\* at most this many CRLF-separated segments follow the request line
MaxHeaderLines == 3

----------------------------------------------------------------------------
(* Character-level primitives of the Rust standard library *)

\* char::is_whitespace: the Unicode White_Space code points
White_Space ==
    (9..13) \cup {32, 133, 160, 5760} \cup (8192..8202)
        \cup {8232, 8233, 8239, 8287, 12288}

is_whitespace(c) == c \in White_Space

\* u8/char to_ascii_lowercase: only 'A'..'Z' change
ascii_lower_char(c) == IF c \in 65..90 THEN c + 32 ELSE c

\* str::to_ascii_lowercase
to_ascii_lowercase(s) == [i \in 1..Len(s) |-> ascii_lower_char(s[i])]

\* str::trim_start
RECURSIVE trim_start(_)
trim_start(s) ==
    IF s = <<>> THEN <<>>
    ELSE IF is_whitespace(Head(s)) THEN trim_start(Tail(s))
    ELSE s

\* str::trim_end
RECURSIVE trim_end(_)
trim_end(s) ==
    IF s = <<>> THEN <<>>
    ELSE IF is_whitespace(s[Len(s)]) THEN trim_end(SubSeq(s, 1, Len(s) - 1))
    ELSE s

\* str::trim
trim(s) == trim_end(trim_start(s))

\* does pattern pat occur in s starting at index i
matches_at(s, i, pat) ==
    /\ i + Len(pat) - 1 <= Len(s)
    /\ \A j \in 1..Len(pat) : s[i + j - 1] = pat[j]

\* str::find: index of the first occurrence of pat in s, 0 when there is none
find(s, pat) ==
    LET hits == {i \in 1..Len(s) : matches_at(s, i, pat)}
    IN  IF hits = {} THEN 0
        ELSE CHOOSE i \in hits : \A j \in hits : i <= j

\* str::split(pat): the pieces between successive matches, always >= 1 piece
RECURSIVE split(_, _)
split(s, pat) ==
    LET k == find(s, pat)
    IN  IF k = 0 THEN <<s>>
        ELSE <<SubSeq(s, 1, k - 1)>>
                 \o split(SubSeq(s, k + Len(pat), Len(s)), pat)

\* str::splitn(n, pat): at most n pieces, the last one is the remainder
RECURSIVE splitn(_, _, _)
splitn(s, n, pat) ==
    LET k == find(s, pat)
    IN  IF n = 0 THEN <<>>
        ELSE IF n = 1 \/ k = 0 THEN <<s>>
        ELSE <<SubSeq(s, 1, k - 1)>>
                 \o splitn(SubSeq(s, k + Len(pat), Len(s)), n - 1, pat)

\* str::split_whitespace: maximal runs of non-whitespace, in order
RECURSIVE split_whitespace(_)
split_whitespace(s) ==
    LET t == trim_start(s)
        stops == {i \in 1..Len(t) : is_whitespace(t[i])}
        e == IF stops = {} THEN Len(t) + 1
             ELSE CHOOSE i \in stops : \A j \in stops : i <= j
    IN  IF t = <<>> THEN <<>>
        ELSE <<SubSeq(t, 1, e - 1)>>
                 \o split_whitespace(SubSeq(t, e, Len(t)))

----------------------------------------------------------------------------
(* String literals of the source, as character codes *)

CRLF == <<13, 10>>                                             \* "\r\n"
COLON == <<58>>                                                \* ":"

lit_options == <<111, 112, 116, 105, 111, 110, 115>>           \* "options"
lit_get == <<103, 101, 116>>                                   \* "get"
lit_header == <<104, 101, 97, 100, 101, 114>>                  \* "header"
lit_post == <<112, 111, 115, 116>>                             \* "post"
lit_put == <<112, 117, 116>>                                   \* "put"
lit_delete == <<100, 101, 108, 101, 116, 101>>                 \* "delete"
lit_trace == <<116, 114, 97, 99, 101>>                         \* "trace"

lit_accept == <<97, 99, 99, 101, 112, 116>>                    \* "accept"
lit_accept_charset ==                                          \* "accept-charset"
    <<97, 99, 99, 101, 112, 116, 45, 99, 104, 97, 114, 115, 101, 116>>
lit_accept_encoding ==                                         \* "accept-encoding"
    <<97, 99, 99, 101, 112, 116, 45, 101, 110, 99, 111, 100, 105, 110, 103>>
lit_host == <<104, 111, 115, 116>>                             \* "host"
lit_user_agent == <<117, 115, 101, 114, 45, 97, 103, 101, 110, 116>> \* "user-agent"
lit_referer == <<114, 101, 102, 101, 114, 101, 114>>           \* "referer"

----------------------------------------------------------------------------
(* Values *)

NoText == <<>>

\* enum HttpMethod: the unit variants carry no text, Extension carries a String
HttpMethod(variant, text) == [variant |-> variant, text |-> text]

\* enum HttpHeaderName: the unit variants carry no text, Custom carries a String
HttpHeaderName(variant, text) == [variant |-> variant, text |-> text]

\* struct HttpHeader
HttpHeader(name, value) == [name |-> name, value |-> value]

\* Result::Ok / Result::Err of either function, and the bounds-check panic
Ok(v) == [tag |-> "Ok", val |-> v, msg |-> ""]
Err(m) == [tag |-> "Err", val |-> <<>>, msg |-> m]
Panic(m) == [tag |-> "Panic", val |-> <<>>, msg |-> m]
NoResult == [tag |-> "None", val |-> <<>>, msg |-> ""]

----------------------------------------------------------------------------
(* HttpHeaderSplitTrim *)

split_trim(s, pattern) ==
    LET p == split(s, pattern) IN [i \in 1..Len(p) |-> trim(p[i])]

\* splitn_trim without its limit: the line is cut at every colon
splitn_trim_every_match(s, n, pattern) ==
    LET p == split(s, pattern) IN [i \in 1..Len(p) |-> trim(p[i])]

splitn_trim(s, n, pattern) ==
    LET p == splitn(s, n, pattern) IN [i \in 1..Len(p) |-> trim(p[i])]

----------------------------------------------------------------------------
(* HttpHeader::new *)

\* the chain comparing the name as written, without lowercasing it
header_name_case_sensitive(parts) ==
    LET name == parts[1]
    IN  IF name = lit_accept THEN HttpHeaderName("Accept", NoText)
        ELSE IF name = lit_accept_charset
            THEN HttpHeaderName("AcceptCharset", NoText)
        ELSE IF name = lit_accept_encoding
            THEN HttpHeaderName("AcceptEncoding", NoText)
        ELSE IF name = lit_host THEN HttpHeaderName("Host", NoText)
        ELSE IF name = lit_user_agent THEN HttpHeaderName("UserAgent", NoText)
        ELSE IF name = lit_referer THEN HttpHeaderName("Referer", NoText)
        ELSE HttpHeaderName("Custom", parts[1])

\* the chain with Custom built from the lowercased name instead of parts[0]
header_name_lowercased_custom(parts) ==
    LET name == to_ascii_lowercase(parts[1])
    IN  IF name = lit_accept THEN HttpHeaderName("Accept", NoText)
        ELSE IF name = lit_accept_charset
            THEN HttpHeaderName("AcceptCharset", NoText)
        ELSE IF name = lit_accept_encoding
            THEN HttpHeaderName("AcceptEncoding", NoText)
        ELSE IF name = lit_host THEN HttpHeaderName("Host", NoText)
        ELSE IF name = lit_user_agent THEN HttpHeaderName("UserAgent", NoText)
        ELSE IF name = lit_referer THEN HttpHeaderName("Referer", NoText)
        ELSE HttpHeaderName("Custom", name)

\* the if / else-if chain on the lowercased name; Custom keeps parts[0]
header_name(parts) ==
    LET name == to_ascii_lowercase(parts[1])
    IN  IF name = lit_accept THEN HttpHeaderName("Accept", NoText)
        ELSE IF name = lit_accept_charset
            THEN HttpHeaderName("AcceptCharset", NoText)
        ELSE IF name = lit_accept_encoding
            THEN HttpHeaderName("AcceptEncoding", NoText)
        ELSE IF name = lit_host THEN HttpHeaderName("Host", NoText)
        ELSE IF name = lit_user_agent THEN HttpHeaderName("UserAgent", NoText)
        ELSE IF name = lit_referer THEN HttpHeaderName("Referer", NoText)
        ELSE HttpHeaderName("Custom", parts[1])

\* let value = parts[1]
header_value(parts) == parts[2]

HttpHeader_new(line) ==
    LET parts == splitn_trim(line, 2, COLON)
    IN  IF Len(parts) # 2
        THEN Err("Too many parts after line split")
        ELSE Ok(HttpHeader(header_name(parts), header_value(parts)))

----------------------------------------------------------------------------
(* HttpRequest::new *)

\* match request_line[0].to_ascii_lowercase().as_ref() { ... x => Extension(x) }
\* the catch-all arm binds x to the scrutinee, which is the lowercased token
request_method(request_line) ==
    LET x == to_ascii_lowercase(request_line[1])
    IN  IF x = lit_options THEN HttpMethod("Options", NoText)
        ELSE IF x = lit_get THEN HttpMethod("Get", NoText)
        ELSE IF x = lit_header THEN HttpMethod("Header", NoText)
        ELSE IF x = lit_post THEN HttpMethod("Post", NoText)
        ELSE IF x = lit_put THEN HttpMethod("Put", NoText)
        ELSE IF x = lit_delete THEN HttpMethod("Delete", NoText)
        ELSE IF x = lit_trace THEN HttpMethod("Trace", NoText)
        ELSE HttpMethod("Extension", x)

\* the target taken from the last token instead of the second
request_uri_last_token(request_line) == request_line[Len(request_line)]

\* let uri = request_line[1].to_string()
request_uri(request_line) == request_line[2]

\* the header loop giving up at the first line that fails to parse
RECURSIVE request_headers_until_failure(_)
request_headers_until_failure(ls) ==
    IF ls = <<>> THEN <<>>
    ELSE LET h == HttpHeader_new(Head(ls))
         IN  IF h.tag = "Ok"
             THEN <<h.val>> \o request_headers_until_failure(Tail(ls))
             ELSE <<>>

\* (&lines[1 ..]).iter().filter_map(|l| HttpHeader::new(l).ok()).collect()
\* called with the slice lines[1 ..]
RECURSIVE request_headers(_)
request_headers(ls) ==
    IF ls = <<>> THEN <<>>
    ELSE LET h == HttpHeader_new(Head(ls))
         IN  IF h.tag = "Ok"
             THEN <<h.val>> \o request_headers(Tail(ls))
             ELSE request_headers(Tail(ls))

\* struct HttpRequest
HttpRequest(method, uri, headers) ==
    [method |-> method, uri |-> uri, headers |-> headers]

HttpRequest_new(header) ==
    LET lines == split_trim(header, CRLF)
        request_line == split_whitespace(lines[1])
    IN  IF Len(lines) = 0 THEN Err("No CRLF in request")
        ELSE IF Len(request_line) < 1 THEN Panic("request_line[0]")
        ELSE IF Len(request_line) < 2 THEN Panic("request_line[1]")
        ELSE Ok(HttpRequest(request_method(request_line),
                            request_uri(request_line),
                            request_headers(Tail(lines))))

----------------------------------------------------------------------------
(* The inputs a caller can pass: texts built from tokens, separators,     *)
(* line terminators and header lines                                       *)

SP == <<32>>                                                   \* " "
TAB == <<9>>                                                   \* "\t"
EMPTY == <<>>                                                  \* ""

tok_head == <<104, 101, 97, 100>>                              \* "head"
tok_patch == <<112, 97, 116, 99, 104>>                         \* "patch"
txt_x_custom == <<120, 45, 99, 117, 115, 116, 111, 109>>       \* "x-custom"
txt_hosts == <<104, 111, 115, 116, 115>>                       \* "hosts"
txt_target == <<47, 65, 98>>                                   \* "/Ab"
txt_root == <<47>>                                             \* "/"
txt_version == <<72, 84, 84, 80, 47, 49, 46, 49>>              \* "HTTP/1.1"
txt_extra == <<120>>                                           \* "x"
val_v == <<118>>                                               \* "v"
val_colons == <<97, 58, 98, 32, 32, 99>>                       \* "a:b  c"
val_hostport == <<104, 58, 49>>                                \* "h:1"
val_url == <<104, 116, 116, 112, 58, 47, 47, 101, 46, 99>>     \* "http://e.c"
val_crlf == <<97, 13, 10, 98>>                                 \* "a\r\nb"
seg_host == <<72, 111, 115, 116, 58, 32, 104, 58, 49>>         \* "Host: h:1"
seg_accept == <<97, 99, 99, 101, 112, 116, 58, 118>>           \* "accept:v"
seg_custom ==                                                  \* " X-Custom:  a:b  c  "
    <<32, 88, 45, 67, 117, 115, 116, 111, 109, 58, 32, 32, 97, 58, 98, 32,
      32, 99, 32, 32>>
seg_bad == <<98, 97, 100>>                                     \* "bad"
seg_noname == <<58, 32, 118>>                                  \* ": v"
seg_lf ==                                                      \* "Referer:r\nbad"
    <<82, 101, 102, 101, 114, 101, 114, 58, 114, 10, 98, 97, 100>>

\* the other letter-case of an ASCII letter
flip_case(c) ==
    IF c \in 65..90 THEN c + 32 ELSE IF c \in 97..122 THEN c - 32 ELSE c

upper_of(w) == [i \in 1..Len(w) |-> IF w[i] \in 97..122 THEN w[i] - 32 ELSE w[i]]

\* the letter-casings of w at most k letters away from all-lower or all-upper
Casings(w, k) ==
    LET sets == {S \in SUBSET (1..Len(w)) : Cardinality(S) <= k}
    IN  {[i \in 1..Len(w) |-> IF i \in S THEN flip_case(b[i]) ELSE b[i]] :
            S \in sets, b \in {w, upper_of(w)}}

\* every letter-casing of w
AllCasings(w) == Casings(w, Len(w))

SpecMethods ==
    {lit_options, lit_get, tok_head, lit_post, lit_put, lit_delete, lit_trace}

SpecHeaderNames ==
    {lit_accept, lit_accept_charset, lit_accept_encoding, lit_host,
     lit_referer, lit_user_agent}

MethodTokens ==
    UNION {AllCasings(w) : w \in SpecMethods \cup {lit_header, tok_patch}}

tok_GET == upper_of(lit_get)
tok_HeAd == <<72, 101, 65, 100>>                               \* "HeAd"
tok_Patch == <<80, 97, 116, 99, 104>>                          \* "Patch"

Tails ==
    {EMPTY, SP, SP \o txt_version,
     SP \o SP \o txt_version \o TAB \o txt_extra}

FullLines == {m \o SP \o txt_target \o SP \o txt_version : m \in MethodTokens}

ShapeLines ==
    {pre \o m \o sep \o t \o tail :
        pre \in {EMPTY, SP}, m \in {tok_GET, tok_HeAd, tok_Patch},
        sep \in {SP, SP \o TAB}, t \in {txt_target, txt_root}, tail \in Tails}

ShortLines ==
    {EMPTY, SP, tok_GET, SP \o lit_get \o SP, tok_Patch, upper_of(tok_head)}

HeaderSegs ==
    {seg_host, seg_accept, seg_custom, EMPTY, seg_bad, seg_noname, seg_lf}

RECURSIVE Sections(_)
Sections(n) ==
    IF n = 0 THEN {EMPTY}
    ELSE LET prev == Sections(n - 1)
         IN  prev \cup {s \o CRLF \o g : s \in prev, g \in HeaderSegs}

FewSections == {EMPTY, CRLF \o seg_host \o CRLF \o seg_bad \o CRLF}

FewLines ==
    {tok_GET \o SP \o txt_target \o SP \o txt_version,
     tok_Patch \o SP \o txt_root, tok_GET, EMPTY}

Requests ==
    {l \o s : l \in FullLines \cup ShapeLines \cup ShortLines,
              s \in FewSections}
        \cup {l \o s : l \in FewLines, s \in Sections(MaxHeaderLines)}

HeaderNameTexts ==
    UNION {Casings(w, MaxFlips) : w \in SpecHeaderNames \cup {txt_x_custom}}
        \cup {txt_hosts, EMPTY}

Values ==
    {EMPTY, val_v, val_colons, val_hostport \o SP, TAB \o val_url, val_crlf,
     SP \o SP}

FewNames ==
    {lit_host, <<72, 111, 83, 116>>, upper_of(lit_user_agent),
     <<88, 45, 67, 117, 115, 116, 111, 109>>, txt_hosts, EMPTY}

HeaderLines ==
    {n \o COLON \o SP \o val_colons : n \in HeaderNameTexts}
        \cup {SP \o n \o TAB \o COLON \o val_hostport \o SP :
                 n \in HeaderNameTexts}
        \cup {pre \o n \o mid \o COLON \o post \o v :
                 pre \in {EMPTY, SP \o TAB}, n \in FewNames,
                 mid \in {EMPTY, SP}, post \in {EMPTY, SP, SP \o SP},
                 v \in Values}
        \cup {EMPTY, SP, seg_bad, lit_host \o SP}

Inputs == Requests \cup HeaderLines

----------------------------------------------------------------------------
(* The two entry points, each applied once to the input *)

Init ==
    /\ input \in Inputs
    /\ called = "none"
    /\ result = NoResult

\* pub fn HttpRequest::new(header: &str) -> Result<HttpRequest, String>
ParseRequest ==
    /\ called = "none"
    /\ called' = "HttpRequest::new"
    /\ result' = HttpRequest_new(input)
    /\ UNCHANGED input

\* pub fn HttpHeader::new(line: &str) -> Result<HttpHeader, String>
ParseHeader ==
    /\ called = "none"
    /\ called' = "HttpHeader::new"
    /\ result' = HttpHeader_new(input)
    /\ UNCHANGED input

Next == ParseRequest \/ ParseHeader

Spec == Init /\ [][Next]_vars

TypeOK ==
    /\ called \in {"none", "HttpRequest::new", "HttpHeader::new"}
    /\ result.tag \in {"None", "Ok", "Err", "Panic"}
    /\ (called = "none") <=> (result = NoResult)

----------------------------------------------------------------------------
(* Vocabulary of the properties, stated on the input text itself *)

Min(S) == CHOOSE x \in S : \A y \in S : x <= y
Max(S) == CHOOSE x \in S : \A y \in S : y <= x

\* the k-th smallest element of a set of integers
Nth(S, k) == CHOOSE x \in S : Cardinality({y \in S : y < x}) = k - 1

\* s without its leading and trailing whitespace
Trimmed(s) ==
    LET solid == {i \in 1..Len(s) : ~is_whitespace(s[i])}
    IN  IF solid = {} THEN <<>> ELSE SubSeq(s, Min(solid), Max(solid))

\* a and b are the same text up to the case of ASCII letters
EqIgnoreCase(a, b) ==
    /\ Len(a) = Len(b)
    /\ \A i \in 1..Len(a) : a[i] = b[i] \/ flip_case(a[i]) = b[i]

HasUpper(s) == \E i \in 1..Len(s) : s[i] \in 65..90

\* position of the first colon of s, 0 when s has none
FirstColon(s) ==
    LET at == {i \in 1..Len(s) : s[i] = 58}
    IN  IF at = {} THEN 0 ELSE Min(at)

NameText(s) == SubSeq(s, 1, FirstColon(s) - 1)
ValueText(s) == SubSeq(s, FirstColon(s) + 1, Len(s))

\* positions where a CR LF pair starts
CrlfAt(s) == {i \in 1..(Len(s) - 1) : s[i] = 13 /\ s[i + 1] = 10}

LineCount(s) == Cardinality(CrlfAt(s)) + 1

\* the j-th CRLF-delimited line of s, terminators excluded
RawLine(s, j) ==
    LET from == IF j = 1 THEN 1 ELSE Nth(CrlfAt(s), j - 1) + 2
        to == IF j = LineCount(s) THEN Len(s) ELSE Nth(CrlfAt(s), j) - 1
    IN  SubSeq(s, from, to)

TokenStarts(l) ==
    {i \in 1..Len(l) :
        ~is_whitespace(l[i]) /\ (i = 1 \/ is_whitespace(l[i - 1]))}

TokenEnds(l) ==
    {i \in 1..Len(l) :
        ~is_whitespace(l[i]) /\ (i = Len(l) \/ is_whitespace(l[i + 1]))}

TokenCount(l) == Cardinality(TokenStarts(l))

\* the k-th whitespace-delimited token of l
Token(l, k) == SubSeq(l, Nth(TokenStarts(l), k), Nth(TokenEnds(l), k))

RequestLine == RawLine(input, 1)

\* the HttpMethod variant of each method of the specification's table
MethodVariant(w) ==
    CASE w = lit_options -> "Options"
      [] w = lit_get -> "Get"
      [] w = tok_head -> "Header"
      [] w = lit_post -> "Post"
      [] w = lit_put -> "Put"
      [] w = lit_delete -> "Delete"
      [] w = lit_trace -> "Trace"

\* the HttpHeaderName variant of each recognized header name
HeaderVariant(w) ==
    CASE w = lit_accept -> "Accept"
      [] w = lit_accept_charset -> "AcceptCharset"
      [] w = lit_accept_encoding -> "AcceptEncoding"
      [] w = lit_host -> "Host"
      [] w = lit_referer -> "Referer"
      [] w = lit_user_agent -> "UserAgent"

RecognizedMethod(t) == \E w \in SpecMethods : EqIgnoreCase(t, w)
RecognizedHeader(t) == \E w \in SpecHeaderNames : EqIgnoreCase(t, w)

RequestReturned == called = "HttpRequest::new"
HeaderReturned == called = "HttpHeader::new"

----------------------------------------------------------------------------
(* Error handling of the request line *)

\* C1: a request whose first line holds exactly one token returns an error
\* (MalformedRequestLine, i.e. neither of the two other error kinds); it
\* neither aborts on an out-of-bounds index nor returns a request.
C1_OneTokenIsMalformedRequestLine ==
    (RequestReturned /\ TokenCount(RequestLine) = 1) =>
        /\ result.tag = "Err"
        /\ result.msg \notin
               {"No CRLF in request", "Too many parts after line split"}

\* C2: a request whose first line is empty after trimming (the empty input
\* included) returns the NoRequestLine error, never an abort.
C2_EmptyLineIsNoRequestLine ==
    (RequestReturned /\ TokenCount(RequestLine) = 0) =>
        result = Err("No CRLF in request")

----------------------------------------------------------------------------
(* Classification of the method *)

\* C3: for each of OPTIONS, GET, HEAD, POST, PUT, DELETE, TRACE in any
\* letter-casing, a well-formed request line starting with it yields the
\* variant of that method, never Extension.
C3_MethodCaseInsensitive ==
    \A w \in SpecMethods :
        (/\ RequestReturned
         /\ TokenCount(RequestLine) >= 2
         /\ EqIgnoreCase(Token(RequestLine, 1), w)) =>
            /\ result.tag = "Ok"
            /\ result.val.method = HttpMethod(MethodVariant(w), NoText)

\* C4: a first token matching no recognized method yields Extension(t) with
\* t the token exactly as written, letter-casing preserved.
C4_ExtensionVerbatim ==
    (/\ RequestReturned
     /\ TokenCount(RequestLine) >= 2
     /\ ~RecognizedMethod(Token(RequestLine, 1))) =>
        /\ result.tag = "Ok"
        /\ result.val.method = HttpMethod("Extension", Token(RequestLine, 1))

----------------------------------------------------------------------------
(* HttpHeader::new *)

\* C5: HttpHeader::new returns the MalformedHeader error exactly when the
\* line has no colon or the text before the first colon is empty after
\* trimming; every other line yields a header.
C5_MalformedHeaderIff ==
    HeaderReturned =>
        /\ result.tag \in {"Ok", "Err"}
        /\ (result.tag = "Err") <=>
               (FirstColon(input) = 0 \/ Trimmed(NameText(input)) = <<>>)

\* C6: a recognized header name, in any letter-casing and with any
\* whitespace around name and value, yields its own variant (never Custom)
\* and the value with only leading and trailing whitespace removed.
C6_RecognizedHeaderNormalized ==
    \A w \in SpecHeaderNames :
        (/\ HeaderReturned
         /\ FirstColon(input) > 0
         /\ EqIgnoreCase(Trimmed(NameText(input)), w)) =>
            /\ result.tag = "Ok"
            /\ result.val.name = HttpHeaderName(HeaderVariant(w), NoText)
            /\ result.val.value = Trimmed(ValueText(input))

\* a mixed-case recognized name padded with whitespace, whose padded value
\* was returned trimmed
C6_Witness ==
    /\ HeaderReturned
    /\ FirstColon(input) > 0
    /\ RecognizedHeader(Trimmed(NameText(input)))
    /\ HasUpper(NameText(input))
    /\ Trimmed(NameText(input)) # to_ascii_lowercase(Trimmed(NameText(input)))
    /\ Trimmed(NameText(input)) # NameText(input)
    /\ Trimmed(ValueText(input)) # ValueText(input)
    /\ result.tag = "Ok"
    /\ result.val.name.variant # "Custom"
    /\ Len(result.val.value) > 1

\* C7: a name matching no recognized header yields Custom(n), n being the
\* text before the first colon with surrounding whitespace removed and its
\* letter-casing kept; a returned Custom never holds a recognized name.
C7_CustomVerbatim ==
    HeaderReturned =>
        /\ (FirstColon(input) > 0
                /\ ~RecognizedHeader(Trimmed(NameText(input)))) =>
               /\ result.tag = "Ok"
               /\ result.val.name =
                      HttpHeaderName("Custom", Trimmed(NameText(input)))
        /\ (result.tag = "Ok" /\ result.val.name.variant = "Custom") =>
               ~RecognizedHeader(result.val.name.text)

\* a padded unrecognized name with upper-case letters returned as Custom
C7_Witness ==
    /\ HeaderReturned
    /\ FirstColon(input) > 0
    /\ CrlfAt(input) = {}
    /\ is_whitespace(input[1])
    /\ Trimmed(NameText(input)) # NameText(input)
    /\ result.tag = "Ok"
    /\ result.val.name.variant = "Custom"
    /\ HasUpper(result.val.name.text)

\* C10: the split is on the first colon only: for a line "{Name}: {Value}"
\* with Name non-empty and colon-free and Value free of CRLF, the call
\* succeeds and the value is Value trimmed, later colons and inner
\* whitespace kept.
C10_FirstColonOnly ==
    (/\ HeaderReturned
     /\ FirstColon(input) > 1
     /\ Len(input) > FirstColon(input)
     /\ input[FirstColon(input) + 1] = 32
     /\ CrlfAt(ValueText(input)) = {}) =>
        /\ result.tag = "Ok"
        /\ result.val.value =
               Trimmed(SubSeq(input, FirstColon(input) + 2, Len(input)))

\* a value holding a further colon and inner whitespace came back whole
C10_Witness ==
    /\ HeaderReturned
    /\ FirstColon(input) > 1
    /\ Trimmed(NameText(input)) # <<>>
    /\ Len(input) > FirstColon(input)
    /\ input[FirstColon(input) + 1] = 32
    /\ CrlfAt(ValueText(input)) = {}
    /\ result.tag = "Ok"
    /\ \E i \in 1..Len(result.val.value) : result.val.value[i] = 58
    /\ \E i \in 1..Len(result.val.value) : result.val.value[i] = 32

----------------------------------------------------------------------------
(* Assembly of the request *)

\* the lines after the first on which HttpHeader::new succeeds
OkLines(s) ==
    {j \in 2..LineCount(s) : HttpHeader_new(RawLine(s, j)).tag = "Ok"}

\* C8: on success the headers are, in order of appearance, exactly the
\* results of HttpHeader::new on the lines after the first on which it
\* succeeds; a failing line adds nothing and never fails the request.
C8_HeadersInOrder ==
    (RequestReturned /\ TokenCount(RequestLine) >= 2) =>
        /\ result.tag = "Ok"
        /\ Len(result.val.headers) = Cardinality(OkLines(input))
        /\ \A k \in 1..Len(result.val.headers) :
               result.val.headers[k] =
                   HttpHeader_new(RawLine(input, Nth(OkLines(input), k))).val

\* two different headers returned around a line that failed to parse
C8_Witness ==
    /\ RequestReturned
    /\ result.tag = "Ok"
    /\ Len(result.val.headers) = 2
    /\ result.val.headers[1] # result.val.headers[2]
    /\ \E j \in 2..LineCount(input) :
           /\ j \notin OkLines(input)
           /\ \E a, b \in OkLines(input) : a < j /\ j < b

\* what may follow the second token of the request line
AltTails == Tails \cup {SP \o txt_extra, TAB \o txt_version \o SP}

\* the input with everything after the second token of its first line
\* replaced by tail
WithTail(s, tail) ==
    LET l == RawLine(s, 1)
    IN  SubSeq(l, 1, Nth(TokenEnds(l), 2)) \o tail
            \o SubSeq(s, Len(l) + 1, Len(s))

\* C9: the target is the second token verbatim, and the result does not
\* depend on what follows the second token on the request line.
C9_TargetVerbatim ==
    (RequestReturned /\ TokenCount(RequestLine) >= 2) =>
        /\ result.tag = "Ok"
        /\ result.val.uri = Token(RequestLine, 2)
        /\ \A tail \in AltTails :
               HttpRequest_new(WithTail(input, tail)) = result

\* a mixed-case target returned from a line with further tokens
C9_Witness ==
    /\ RequestReturned
    /\ TokenCount(RequestLine) >= 4
    /\ result.tag = "Ok"
    /\ HasUpper(result.val.uri)
    /\ result.val.uri = txt_target

----------------------------------------------------------------------------
====
